---- MODULE Spec2Model ----
(***************************************************************************)
(* SecureAuth content script (SecureAuthMonitor): the submit interceptor,  *)
(* the six signals, the risk aggregator and the decision policy, as a      *)
(* state machine over one page; and the history kept by the background     *)
(* service worker.                                                         *)
(*                                                                         *)
(* Scores are kept exact: the weights are written in hundredths, so an     *)
(* overall score is carried multiplied by 100 (7000 is the score 70).      *)
(*                                                                         *)
(* A hostname is a sequence of labels (the parts between dots) and a label *)
(* a sequence of words (the parts between hyphens); a word is atomic.      *)
(*                                                                         *)
(* Specifications: Spec and FairSpec are the page with its submit events;  *)
(* SettingsSpec adds the popup's settings; BreachSpec follows one breach   *)
(* lookup character by character; SignalSpec calls each signal on          *)
(* generated pages and forms; ScoreSpec calls getRiskLevel and             *)
(* calculateRiskScore in double arithmetic; LivePageSpec is Spec on a page *)
(* whose frames and text change; DomainSpec calls analyzeDomain on         *)
(* generated locations; HistorySpec and LoadSpec are the background        *)
(* service worker (SecureAuthBackground) after and during its start.       *)
(***************************************************************************)
EXTENDS Integers, Sequences, FiniteSets, TLC

\* ------------------------------------------------------------------ bounds
\* submit events dispatched on the page in one behaviour
MaxEvents == 2
\* handler invocations that passed recognition, over the whole behaviour
MaxAnalyses == 3

VARIABLES
  page,       \* window.location and the document around the form
  listeners,  \* capture-phase 'submit' listeners on document, in order
  timers,     \* pending setTimeout(..., 1000) callbacks of allowFormSubmission
  events,     \* the submit events dispatched so far
  analyses,   \* one entry per handleFormSubmit invocation that passed recognition
  overlays,   \* #secureauth-warning-overlay elements in the body, document order
  log,        \* logBlockedAttempt messages sent to the background script
  submits,    \* form.submit() calls, by the analysis that made them
  calc,       \* one call of a function of the script, followed on its own
  background  \* the background service worker's state

\* The document may be unloaded at any moment (a navigation commits, the tab
\* is closed): nothing runs afterwards, so a behaviour of the page is a
\* prefix of a behaviour below.
vars == <<page, listeners, timers, events, analyses, overlays, log, submits, calc,
          background>>

\* ------------------------------------------------------------- hostnames
trustedDomains ==
  << <<<<"google">>, <<"com">>>>, <<<<"microsoft">>, <<"com">>>>,
     <<<<"facebook">>, <<"com">>>>, <<<<"apple">>, <<"com">>>>,
     <<<<"github">>, <<"com">>>>, <<<<"linkedin">>, <<"com">>>>,
     <<<<"twitter">>, <<"com">>>>, <<<<"amazon">>, <<"com">>>>,
     <<<<"yahoo">>, <<"com">>>>, <<<<"dropbox">>, <<"com">>>>,
     <<<<"salesforce">>, <<"com">>>> >>

suspiciousTLDs == {<<"tk">>, <<"ml">>, <<"ga">>, <<"cf">>, <<"gq">>, <<"xyz">>, <<"top">>}

\* hostname.endsWith('.' + trustedDomain): the last labels are the trusted
\* domain's and at least one label precedes them
EndsWithDot(hostname, td) ==
  /\ Len(hostname) > Len(td)
  /\ SubSeq(hostname, Len(hostname) - Len(td) + 1, Len(hostname)) = td

\* the words of the model's vocabulary that contain the substring s
WordIncludes(word, s) ==
  \/ word = s
  \/ s = "login" /\ word \in {"securelogin", "loginpage"}
  \/ s = "secure" /\ word \in {"securelogin"}

\* hostname.includes(s), for s without dot or hyphen
Includes(hostname, s) ==
  \E i \in DOMAIN hostname : \E j \in DOMAIN hostname[i] :
    WordIncludes(hostname[i][j], s)

\* words spelled with Cyrillic letters
CyrillicWords == {"paypal-cyr", "google-cyr"}

containsHomographs(hostname) ==
  \E i \in DOMAIN hostname : \E j \in DOMAIN hostname[i] :
    hostname[i][j] \in CyrillicWords

IsTrusted(hostname) ==
  \E i \in DOMAIN trustedDomains :
    hostname = trustedDomains[i] \/ EndsWithDot(hostname, trustedDomains[i])

\* ------------------------------------------------------------- the signals
\* variant that does not look at the top-level domain
analyzeDomain_NoTLD(pg) ==
  LET hostname == pg.hostname
      isTrusted == IsTrusted(hostname)
      s0 == IF isTrusted THEN 90 ELSE 50
      d1 == IF Includes(hostname, "login") /\ ~isTrusted THEN 20 ELSE 0
      d2 == IF Includes(hostname, "secure") /\ ~isTrusted THEN 15 ELSE 0
      d3 == IF containsHomographs(hostname) THEN 30 ELSE 0
      d5 == IF pg.protocol # "https:" THEN 40 ELSE 0
      n(d) == IF d > 0 THEN 1 ELSE 0
  IN [isTrusted |-> isTrusted,
      suspiciousPatterns |-> n(d1) + n(d2) + n(d3) + n(d5),
      score |-> s0 - d1 - d2 - d3 - d5]

analyzeDomain(pg) ==
  LET hostname == pg.hostname
      isTrusted == IsTrusted(hostname)
      s0 == IF isTrusted THEN 90 ELSE 50
      d1 == IF Includes(hostname, "login") /\ ~isTrusted THEN 20 ELSE 0
      d2 == IF Includes(hostname, "secure") /\ ~isTrusted THEN 15 ELSE 0
      d3 == IF containsHomographs(hostname) THEN 30 ELSE 0
      d4 == IF hostname[Len(hostname)] \in suspiciousTLDs THEN 25 ELSE 0
      d5 == IF pg.protocol # "https:" THEN 40 ELSE 0
      n(d) == IF d > 0 THEN 1 ELSE 0
  IN [isTrusted |-> isTrusted,
      suspiciousPatterns |-> n(d1) + n(d2) + n(d3) + n(d4) + n(d5),
      score |-> s0 - d1 - d2 - d3 - d4 - d5]

analyzeCertificate(pg) ==
  IF pg.protocol = "https:"
    THEN [isSecure |-> TRUE, score |-> 70]
    ELSE [isSecure |-> FALSE, score |-> 10]

\* A response of the breach-range service: kind "ok" (HTTP 2xx, body read),
\* "notOk" (response.ok false) or "error" (fetch or text() rejects);
\* match: a line of the body carries the password digest's suffix.
Responses ==
  { [kind |-> "ok", match |-> TRUE], [kind |-> "ok", match |-> FALSE],
    [kind |-> "notOk", match |-> FALSE], [kind |-> "error", match |-> FALSE] }

BreachFailed(resp) == resp.kind \in {"notOk", "error"}

NoBreachResult == [checked |-> FALSE, found |-> FALSE, score |-> -1]

\* the outcome of a call: threw is TRUE when an exception leaves the call
Returns(v) == [threw |-> FALSE, value |-> v]
Throws(v) == [threw |-> TRUE, value |-> v]

\* variant without the try/catch: a rejected fetch leaves the call
checkPasswordBreach_NoCatch(resp) ==
  IF resp.kind = "error"
    THEN Throws(NoBreachResult)
    ELSE IF resp.kind = "notOk"
      THEN Returns([checked |-> FALSE, found |-> FALSE, score |-> 50])
      ELSE IF resp.match
        THEN Returns([checked |-> TRUE, found |-> TRUE, score |-> 0])
        ELSE Returns([checked |-> TRUE, found |-> FALSE, score |-> 80])

\* variant whose scores for a found and a clean password are exchanged
checkPasswordBreach_FoundIsClean(resp) ==
  IF resp.kind = "error"
    THEN Returns([checked |-> FALSE, found |-> FALSE, score |-> 50])
    ELSE IF resp.kind = "notOk"
      THEN Returns([checked |-> FALSE, found |-> FALSE, score |-> 50])
      ELSE IF resp.match
        THEN Returns([checked |-> TRUE, found |-> TRUE, score |-> 80])
        ELSE Returns([checked |-> TRUE, found |-> FALSE, score |-> 0])

\* checkPasswordBreach once the request has settled with resp; every failure
\* inside the try block is caught
checkPasswordBreach(resp) ==
  IF resp.kind = "error"
    THEN Returns([checked |-> FALSE, found |-> FALSE, score |-> 50])
    ELSE IF resp.kind = "notOk"
      THEN Returns([checked |-> FALSE, found |-> FALSE, score |-> 50])
      ELSE IF resp.match
        THEN Returns([checked |-> TRUE, found |-> TRUE, score |-> 0])
        ELSE Returns([checked |-> TRUE, found |-> FALSE, score |-> 80])

\* a checkbox id that makes `label[for="${cb.id}"]` an invalid selector
\* (it contains a double quote): form.querySelector throws SyntaxError
IdBreaksSelector(id) == id = "has-doublequote"

matchesForgot(text) == text \in {"forgot", "reset", "forgot-or-register"}
matchesRegister(text) ==
  text \in {"register", "sign up", "create account", "forgot-or-register"}

RECURSIVE RememberBonus(_)
RememberBonus(cbs) ==
  IF cbs = <<>> THEN 0
  ELSE (IF Head(cbs).label = "remember" THEN 5 ELSE 0) + RememberBonus(Tail(cbs))

RECURSIVE LinkBonus(_)
LinkBonus(links) ==
  IF links = <<>> THEN 0
  ELSE (IF matchesForgot(Head(links)) THEN 10 ELSE 0)
       + (IF matchesRegister(Head(links)) THEN 5 ELSE 0)
       + LinkBonus(Tail(links))

analyzeFormCharacteristics(form, pg) ==
  LET labels == IF form.labels >= 2 THEN 10 ELSE 0
      frames == IF pg.iframes > 0 /\ ~analyzeDomain(pg).isTrusted THEN 20 ELSE 0
      score == 50 + labels + RememberBonus(form.checkboxes)
                  + LinkBonus(form.links) - frames
      v == [suspiciousIframes |-> frames > 0, score |-> score]
  IN IF \E i \in DOMAIN form.checkboxes : IdBreaksSelector(form.checkboxes[i].id)
       THEN Throws(v)
       ELSE Returns(v)

analyzeVisualSimilarity(pg) ==
  LET t == pg.bodyText
      d1 == IF "verify" \in t /\ "account" \in t THEN 10 ELSE 0
      d2 == IF "suspend" \in t \/ "locked" \in t THEN 15 ELSE 0
      d3 == IF "unusual activity" \in t THEN 15 ELSE 0
  IN [score |-> 50 - d1 - d2 - d3]

checkDomainReputation == [checked |-> TRUE, score |-> 50]

\* ----------------------------------------------------------- the aggregator
\* the weights, in hundredths
weights ==
  [domain |-> 30, certificate |-> 15, breachCheck |-> 25,
   formCharacteristics |-> 15, visualSimilarity |-> 10, domainReputation |-> 5]

\* score is the overall score multiplied by 100
getRiskLevel(score) ==
  IF score >= 7000 THEN "LOW"
  ELSE IF score >= 4000 THEN "MEDIUM"
  ELSE IF score >= 2000 THEN "HIGH"
  ELSE "CRITICAL"

calculateRiskScore(results) ==
  LET totalScore ==
          results.domain.score * weights.domain
        + results.certificate.score * weights.certificate
        + results.breachCheck.score * weights.breachCheck
        + results.formCharacteristics.score * weights.formCharacteristics
        + results.visualSimilarity.score * weights.visualSimilarity
        + results.domainReputation.score * weights.domainReputation
  IN [overall |-> totalScore, level |-> getRiskLevel(totalScore)]

\* performSecurityAnalysis once the breach lookup has settled with resp:
\* threw names the call whose exception rejects the returned promise
performSecurityAnalysis(form, pg, resp) ==
  LET breach == checkPasswordBreach(resp)
      formc == analyzeFormCharacteristics(form, pg)
      results ==
        [domain |-> analyzeDomain(pg),
         certificate |-> analyzeCertificate(pg),
         breachCheck |-> breach.value,
         formCharacteristics |-> formc.value,
         visualSimilarity |-> analyzeVisualSimilarity(pg),
         domainReputation |-> checkDomainReputation]
  IN [threw |-> IF breach.threw THEN "checkPasswordBreach"
                ELSE IF formc.threw THEN "analyzeFormCharacteristics"
                ELSE "",
      results |-> results]

\* ------------------------------------------------------------ recognition
\* An input element: its type, name, id and autocomplete attributes, and
\* whether its value is non-empty ("" or "x").
Inp(type, name, id, autocomplete, value) ==
  [type |-> type, name |-> name, id |-> id,
   autocomplete |-> autocomplete, value |-> value]

\* attr*="s": the attribute values of the model that contain s
AttrIncludes(attr, s) ==
  \/ attr = s
  \/ s = "user" /\ attr \in {"username", "user_email"}
  \/ s = "email" /\ attr \in {"user_email"}

\* the selectors of findUsernameField, in order
selectors == 1..9

Matches(inp, k) ==
  CASE k = 1 -> inp.type = "email"
    [] k = 2 -> inp.type = "text" /\ AttrIncludes(inp.name, "user")
    [] k = 3 -> inp.type = "text" /\ AttrIncludes(inp.name, "email")
    [] k = 4 -> inp.type = "text" /\ AttrIncludes(inp.name, "login")
    [] k = 5 -> inp.type = "text" /\ AttrIncludes(inp.id, "user")
    [] k = 6 -> inp.type = "text" /\ AttrIncludes(inp.id, "email")
    [] k = 7 -> inp.type = "text" /\ AttrIncludes(inp.id, "login")
    [] k = 8 -> inp.autocomplete = "username"
    [] k = 9 -> inp.autocomplete = "email"

\* the first element in document order among the input indices S, or 0 (null)
FirstOf(S) == IF S = {} THEN 0 ELSE CHOOSE i \in S : \A j \in S : i <= j

\* form.querySelector for the k-th selector
querySelector(inputs, k) ==
  FirstOf({i \in DOMAIN inputs : Matches(inputs[i], k)})

passwordFieldOf(inputs) ==
  FirstOf({i \in DOMAIN inputs : inputs[i].type = "password"})

HasValue(inputs, i) == i # 0 /\ inputs[i].value # ""

findUsernameField(inputs) ==
  LET hit(k) == HasValue(inputs, querySelector(inputs, k))
  IN IF \E k \in selectors : hit(k)
       THEN querySelector(inputs,
              CHOOSE k \in selectors : hit(k) /\ \A m \in 1..(k - 1) : ~hit(m))
       ELSE FirstOf({i \in DOMAIN inputs : inputs[i].type \in {"text", "email"}})

\* variant that tests the fields but not their values
Recognized_NoValueCheck(form) ==
  LET passwordField == passwordFieldOf(form.inputs)
      usernameField == findUsernameField(form.inputs)
  IN passwordField # 0 /\ usernameField # 0

\* the checks of handleFormSubmit before event.preventDefault()
Recognized(form) ==
  LET passwordField == passwordFieldOf(form.inputs)
      usernameField == findUsernameField(form.inputs)
  IN /\ HasValue(form.inputs, passwordField)
     /\ HasValue(form.inputs, usernameField)

\* ------------------------------------------------------- pages and forms
Page(hostname, protocol, iframes, bodyText) ==
  [hostname |-> hostname, protocol |-> protocol,
   iframes |-> iframes, bodyText |-> bodyText]

Pages ==
  { Page(<<<<"github">>, <<"com">>>>, "https:", 0, {}),
    Page(<<<<"my", "bank", "secure">>, <<"com">>>>, "https:", 0, {}),
    Page(<<<<"accounts", "secure", "login">>, <<"tk">>>>, "http:", 0,
         {"suspend"}) }

Form(inputs, labels, checkboxes, links) ==
  [inputs |-> inputs, labels |-> labels,
   checkboxes |-> checkboxes, links |-> links]

Email(v) == Inp("email", "", "", "", v)
Password(v) == Inp("password", "", "", "", v)

Forms ==
  { \* recognized: by the first selector; by a name selector; by the fallback
    Form(<<Email("x"), Password("x")>>, 0, <<>>, <<>>),
    Form(<<Inp("text", "username", "", "", "x"), Password("x")>>, 2,
         <<[id |-> "remember", label |-> "remember"]>>, <<"forgot", "register">>),
    Form(<<Inp("text", "q", "", "", "x"), Password("x")>>, 0,
         <<[id |-> "has-doublequote", label |-> "none"]>>, <<>>),
    \* not recognized: no password input; an empty password; an empty
    \* identifier, which the fallback of findUsernameField returns; no
    \* identifier input
    Form(<<Email("x")>>, 0, <<>>, <<>>),
    Form(<<Email("x"), Password("")>>, 0, <<>>, <<>>),
    Form(<<Inp("text", "q", "", "", ""), Password("x")>>, 0, <<>>, <<>>),
    Form(<<Password("x")>>, 0, <<>>, <<>>) }

\* ------------------------------------------------------------- the machine
NewAnalysis(e) ==
  [event |-> e, pc |-> "breach", failed |-> FALSE,
   breachCheck |-> NoBreachResult, overall |-> 0, level |-> "",
   btn |-> 0, choice |-> "", threw |-> ""]

\* no function is followed on its own
NoCalc == [op |-> "none"]

\* the service worker before any updateSettings message: the settings the
\* popup shows when none are stored
NoSettings == [settings |-> [enableHIBP |-> TRUE]]

\* constructor and init(): one arrow-function listener wraps handleFormSubmit
Init ==
  /\ page \in Pages
  /\ listeners = <<"arrow">>
  /\ timers = 0
  /\ events = <<>>
  /\ analyses = <<>>
  /\ overlays = <<>>
  /\ log = <<>>
  /\ submits = <<>>
  /\ calc = NoCalc
  /\ background = NoSettings

\* document.removeEventListener('submit', fn, true): removes the listener
\* that is the same function object as fn
removeEventListener(ls, fn) == SelectSeq(ls, LAMBDA l : l # fn)

\* variant that submits the form twice
SubmitCalls_Twice(a) == <<a, a>>

\* the form.submit() calls of one allowFormSubmission
SubmitCalls(a) == <<a>>

RECURSIVE AllSubmitCalls(_)
AllSubmitCalls(as) ==
  IF as = <<>> THEN <<>> ELSE SubmitCalls(Head(as)) \o AllSubmitCalls(Tail(as))

\* variant that blocks CRITICAL only and asks for HIGH
Decision_HighAsks(level) ==
  IF level = "CRITICAL" THEN "block"
  ELSE IF level \in {"HIGH", "MEDIUM"} THEN "choice"
  ELSE "allow"

\* variant without the LOW branch: every level that is not blocked asks
Decision_LowAsks(level) ==
  IF level \in {"CRITICAL", "HIGH"} THEN "block" ELSE "choice"

\* the branch handleRiskDecision takes
Decision(level) ==
  IF level \in {"CRITICAL", "HIGH"} THEN "block"
  ELSE IF level = "MEDIUM" THEN "choice"
  ELSE "allow"

\* variant that resumes whatever the choice
Resume_Always(userChoice) == TRUE

Resume_OnCancel(userChoice) == userChoice = "cancel"

\* userChoice === 'proceed'
Resume(userChoice) == userChoice = "proceed"

\* document.getElementById('secureauth-cancel-btn'): the buttons of the first
\* choice overlay in document order
FirstChoiceOwner(ovs) ==
  ovs[CHOOSE i \in DOMAIN ovs :
        ovs[i].kind = "choice" /\ \A j \in 1..(i - 1) : ovs[j].kind # "choice"].owner

\* a submit event on the page's login form, holding `form` at that moment:
\* every registered listener runs handleFormSubmit up to its first await
Dispatch(form) ==
  /\ Len(events) < MaxEvents
  /\ Recognized(form) => Len(analyses) + Len(listeners) <= MaxAnalyses
  /\ LET e == Len(events) + 1
         ran == Recognized(form) /\ Len(listeners) > 0
     IN /\ events' = Append(events, [form |-> form, prevented |-> ran])
        /\ analyses' = IF ran
                         THEN analyses \o [i \in 1..Len(listeners) |-> NewAnalysis(e)]
                         ELSE analyses
  /\ UNCHANGED <<page, listeners, timers, overlays, log, submits, calc, background>>

\* the breach-range service never answers the request of analysis a
Stall(a) ==
  /\ a \in DOMAIN analyses
  /\ analyses[a].pc = "breach"
  /\ analyses' = [analyses EXCEPT ![a].pc = "stalled"]
  /\ UNCHANGED <<page, listeners, timers, events, overlays, log, submits, calc, background>>

\* the breach lookup of analysis a settles with resp (the body has been read,
\* the response is not OK, or the request failed); the rest of
\* performSecurityAnalysis, calculateRiskScore and handleRiskDecision run.
\* From here to the decision the handler only awaits promises that are
\* already resolved, so no event, timer or click runs in between.
Settle(a, resp) ==
  /\ a \in DOMAIN analyses
  /\ analyses[a].pc = "breach"
  /\ LET form == events[analyses[a].event].form
         out == performSecurityAnalysis(form, page, resp)
         riskScore == calculateRiskScore(out.results)
         d == Decision(riskScore.level)
         done(pc, btn) ==
           [analyses EXCEPT ![a] =
              [@ EXCEPT !.pc = pc, !.failed = BreachFailed(resp),
                        !.breachCheck = out.results.breachCheck,
                        !.overall = riskScore.overall,
                        !.level = riskScore.level, !.btn = btn]]
     IN IF out.threw # ""
          THEN /\ analyses' = [analyses EXCEPT ![a] =
                                 [@ EXCEPT !.pc = "aborted",
                                           !.failed = BreachFailed(resp),
                                           !.threw = out.threw]]
               /\ UNCHANGED <<listeners, timers, overlays, log, submits>>
          ELSE CASE d = "block" ->
                      /\ overlays' = Append(overlays, [owner |-> a, kind |-> "block"])
                      /\ log' = Append(log, [by |-> a,
                                             hostname |-> page.hostname,
                                             riskScore |-> riskScore.overall,
                                             riskLevel |-> riskScore.level])
                      /\ analyses' = done("blocked", 0)
                      /\ UNCHANGED <<listeners, timers, submits>>
                 [] d = "choice" ->
                      /\ overlays' = Append(overlays, [owner |-> a, kind |-> "choice"])
                      /\ analyses' = done("awaiting", FirstChoiceOwner(overlays'))
                      /\ UNCHANGED <<listeners, timers, log, submits>>
                 [] d = "allow" ->
                      /\ listeners' = removeEventListener(listeners, "handleFormSubmit")
                      /\ submits' = submits \o SubmitCalls(a)
                      /\ timers' = timers + 1
                      /\ analyses' = done("allowed", 0)
                      /\ UNCHANGED <<overlays, log>>
  /\ UNCHANGED <<page, events, calc, background>>

\* a click on the cancel or proceed button of choice overlay o: every
\* listener registered on that button removes its own overlay and resolves
\* its promise; handleRiskDecision resumes for each
Click(o, userChoice) ==
  /\ \E i \in DOMAIN overlays : overlays[i].kind = "choice" /\ overlays[i].owner = o
  /\ LET hit(ov) == /\ ov.kind = "choice"
                    /\ analyses[ov.owner].pc = "awaiting"
                    /\ analyses[ov.owner].btn = o
         resolved == SelectSeq(overlays, hit)
         owners == [i \in DOMAIN resolved |-> resolved[i].owner]
         R == {owners[i] : i \in DOMAIN owners}
     IN /\ R # {}
        /\ overlays' = SelectSeq(overlays, LAMBDA ov : ~hit(ov))
        /\ analyses' =
             [a \in DOMAIN analyses |->
                IF a \in R
                  THEN [analyses[a] EXCEPT
                          !.pc = IF Resume(userChoice) THEN "allowed" ELSE "cancelled",
                          !.choice = userChoice]
                  ELSE analyses[a]]
        /\ IF Resume(userChoice)
             THEN /\ listeners' = removeEventListener(listeners, "handleFormSubmit")
                  /\ submits' = submits \o AllSubmitCalls(owners)
                  /\ timers' = timers + Len(owners)
             ELSE UNCHANGED <<listeners, submits, timers>>
  /\ UNCHANGED <<page, events, log, calc, background>>

\* variant in which the timer also gives up on the choices not yet made
TimerFires_Timeout ==
  /\ timers > 0
  /\ timers' = timers - 1
  /\ listeners' = Append(listeners, "arrow")
  /\ analyses' = [a \in DOMAIN analyses |->
                    IF analyses[a].pc = "awaiting"
                      THEN [analyses[a] EXCEPT !.pc = "cancelled"]
                      ELSE analyses[a]]
  /\ UNCHANGED <<page, events, overlays, log, submits, calc, background>>

\* a setTimeout callback of allowFormSubmission runs: a new arrow function
\* is registered
TimerFires ==
  /\ timers > 0
  /\ timers' = timers - 1
  /\ listeners' = Append(listeners, "arrow")
  /\ UNCHANGED <<page, events, analyses, overlays, log, submits, calc, background>>

Next ==
  \/ \E form \in Forms : Dispatch(form)
  \/ \E a \in 1..MaxAnalyses : Stall(a)
  \/ \E a \in 1..MaxAnalyses : \E resp \in Responses : Settle(a, resp)
  \/ \E o \in 1..MaxAnalyses : \E c \in {"proceed", "cancel"} : Click(o, c)
  \/ TimerFires

Spec == Init /\ [][Next]_vars

\* the event loop runs a continuation once its promise has settled and a
\* timer callback once its delay has passed; nothing obliges the user to
\* click, nor the page to dispatch another submit event
FairSpec ==
  /\ Spec
  /\ WF_vars(\E a \in 1..MaxAnalyses : \E resp \in Responses : Settle(a, resp))
  /\ WF_vars(TimerFires)

\* ---------------------------------------------- the breach lookup in detail
\* Strings are sequences of one-character strings.
\* bytes of a SHA-1 digest
DigestBytes == 20
\* characters of the digest sent as the range prefix
PrefixLen == 5
\* lines of a response body
MaxLines == 2

HexDigits ==
  <<"0", "1", "2", "3", "4", "5", "6", "7", "8", "9", "a", "b", "c", "d", "e", "f">>

\* String.prototype.toUpperCase and toLowerCase, on one character
UpperChar(c) ==
  CASE c = "a" -> "A" [] c = "b" -> "B" [] c = "c" -> "C"
    [] c = "d" -> "D" [] c = "e" -> "E" [] c = "f" -> "F" [] OTHER -> c
LowerChar(c) ==
  CASE c = "A" -> "a" [] c = "B" -> "b" [] c = "C" -> "c"
    [] c = "D" -> "d" [] c = "E" -> "e" [] c = "F" -> "f" [] OTHER -> c

toUpperCase(s) == [i \in DOMAIN s |-> UpperChar(s[i])]
toLowerCase(s) == [i \in DOMAIN s |-> LowerChar(s[i])]

\* b.toString(16).padStart(2, '0')
toHex(b) ==
  LET digits == IF b < 16 THEN <<HexDigits[b + 1]>>
                ELSE <<HexDigits[(b \div 16) + 1], HexDigits[(b % 16) + 1]>>
  IN IF Len(digits) < 2 THEN <<"0">> \o digits ELSE digits

RECURSIVE join(_)
join(parts) == IF parts = <<>> THEN <<>> ELSE Head(parts) \o join(Tail(parts))

\* sha1(str), given the bytes crypto.subtle.digest returned for str
sha1(hashBuffer) ==
  toUpperCase(join([i \in DOMAIN hashBuffer |-> toHex(hashBuffer[i])]))

substring(s, from, to) == SubSeq(s, from + 1, to)

prefixOf(sha1Hash) == substring(sha1Hash, 0, PrefixLen)
suffixOf(sha1Hash) == toUpperCase(substring(sha1Hash, PrefixLen, Len(sha1Hash)))

rangeUrl == <<"https://api.pwnedpasswords.com/range/">>

\* variant that sends the whole digest
rangeRequest_FullHash(sha1Hash) ==
  [method |-> "GET", url |-> rangeUrl \o sha1Hash,
   headers |-> {<<"Add-Padding", "true">>}, body |-> <<>>]

\* the request checkPasswordBreach hands to fetch
rangeRequest(sha1Hash) ==
  [method |-> "GET", url |-> rangeUrl \o prefixOf(sha1Hash),
   headers |-> {<<"Add-Padding", "true">>}, body |-> <<>>]

\* String.prototype.split with a one-character separator
RECURSIVE split(_, _)
split(s, sep) ==
  IF \A i \in DOMAIN s : s[i] # sep
    THEN <<s>>
    ELSE LET i == CHOOSE k \in DOMAIN s :
                    s[k] = sep /\ \A m \in 1..(k - 1) : s[m] # sep
         IN <<SubSeq(s, 1, i - 1)>> \o split(SubSeq(s, i + 1, Len(s)), sep)

Digits == {"0", "1", "2", "3", "4", "5", "6", "7", "8", "9"}

\* parseInt(count) of a destructured element: NaN when the element is
\* undefined or does not start with a digit; the model's counts have at most
\* one digit
parseInt(parts, k) ==
  IF k > Len(parts) \/ parts[k] = <<>> \/ parts[k][1] \notin Digits
    THEN [nan |-> TRUE, n |-> 0]
    ELSE [nan |-> FALSE,
          n |-> CHOOSE n \in 0..9 : HexDigits[n + 1] = parts[k][1]]

\* const [hashSuffix, count] = line.split(':'); hashSuffix === suffix
lineMatches(line, suffix) == split(line, ":")[1] = suffix

\* the loop over data.split('\n'): the result for the first matching line
scanRange(data, suffix) ==
  LET hashes == split(data, "\n")
      hits == {i \in DOMAIN hashes : lineMatches(hashes[i], suffix)}
  IN IF hits = {}
       THEN [checked |-> TRUE, found |-> FALSE, score |-> 80]
       ELSE LET i == CHOOSE k \in hits : \A m \in hits : k <= m
            IN [checked |-> TRUE, found |-> TRUE,
                count |-> parseInt(split(hashes[i], ":"), 2), score |-> 0]

\* checkPasswordBreach once fetch has settled with response
breachResult(sha1Hash, response) ==
  IF response.kind = "ok"
    THEN scanRange(response.text, suffixOf(sha1Hash))
    ELSE [checked |-> FALSE, found |-> FALSE, score |-> 50]

\* ---- the inputs of the lookup
ByteSamples == {0, 10, 171, 255}

\* digests: a run of one byte followed by a run of another
HashBuffers ==
  { [i \in 1..DigestBytes |-> IF i <= k THEN b1 ELSE b2] :
      b1 \in {10, 171}, b2 \in ByteSamples, k \in {2, 3} }

Passwords == {"hunter2", "x"}
Usernames == {"alice", "bob"}

\* a suffix that differs from s in its last character
otherSuffix(s) ==
  [i \in DOMAIN s |-> IF i = Len(s) THEN (IF s[i] = "0" THEN "1" ELSE "0") ELSE s[i]]

\* s with every other character in lower case
mixedCase(s) ==
  [i \in DOMAIN s |-> IF i % 2 = 0 THEN LowerChar(s[i]) ELSE UpperChar(s[i])]

LineKinds ==
  {"upper", "lower", "mixed", "other", "bare", "nocount", "junk", "empty"}

\* a line of a response body, relative to the digest suffix looked up
Line(kind, suffix) ==
  CASE kind = "upper" -> suffix \o <<":", "5">>
    [] kind = "lower" -> toLowerCase(suffix) \o <<":", "5">>
    [] kind = "mixed" -> mixedCase(suffix) \o <<":", "5">>
    [] kind = "other" -> otherSuffix(suffix) \o <<":", "3">>
    [] kind = "bare" -> suffix
    [] kind = "nocount" -> suffix \o <<":">>
    [] kind = "junk" -> <<"z", "z">>
    [] kind = "empty" -> <<>>

RECURSIVE joinLines(_)
joinLines(lines) ==
  IF lines = <<>> THEN <<>>
  ELSE IF Len(lines) = 1 THEN Head(lines)
  ELSE Head(lines) \o <<"\n">> \o joinLines(Tail(lines))

BodyKinds == UNION {[1..n -> LineKinds] : n \in 0..MaxLines}

Body(kinds, suffix) == joinLines([i \in DOMAIN kinds |-> Line(kinds[i], suffix)])

\* ---- one lookup followed on its own: sha1, the request, the response
BreachInit ==
  /\ Init
  /\ page = Page(<<<<"github">>, <<"com">>>>, "https:", 0, {})

BreachStart(password, username, hashBuffer) ==
  /\ calc = NoCalc
  /\ calc' = [op |-> "digest", password |-> password, username |-> username,
              sha1Hash |-> sha1(hashBuffer)]
  /\ UNCHANGED <<page, listeners, timers, events, analyses, overlays, log, submits,
                 background>>

BreachFetch ==
  /\ calc.op = "digest"
  /\ calc' = [op |-> "fetch", password |-> calc.password,
              username |-> calc.username, sha1Hash |-> calc.sha1Hash,
              request |-> rangeRequest(calc.sha1Hash)]
  /\ UNCHANGED <<page, listeners, timers, events, analyses, overlays, log, submits,
                 background>>

BreachSettle(response) ==
  /\ calc.op = "fetch"
  /\ calc' = [op |-> "breach", password |-> calc.password,
              username |-> calc.username, sha1Hash |-> calc.sha1Hash,
              request |-> calc.request, response |-> response,
              result |-> breachResult(calc.sha1Hash, response)]
  /\ UNCHANGED <<page, listeners, timers, events, analyses, overlays, log, submits,
                 background>>

BreachNext ==
  \/ \E password \in Passwords : \E username \in Usernames :
       \E hashBuffer \in HashBuffers : BreachStart(password, username, hashBuffer)
  \/ BreachFetch
  \/ \E kinds \in BodyKinds :
       BreachSettle([kind |-> "ok", kinds |-> kinds,
                     text |-> Body(kinds, suffixOf(calc.sha1Hash))])
  \/ \E kind \in {"notOk", "error"} : BreachSettle([kind |-> kind])

BreachSpec == BreachInit /\ [][BreachNext]_vars

\* ------------------------------------------- the signals, one call at a time
\* labels of a generated hostname
MaxLabels == 3
\* checkboxes of a generated form, and links of a generated form
MaxItems == 2

\* window.location.hostname is the ASCII serialization of the host, so no
\* generated label has a Cyrillic word
HostLabels == {<<"github">>, <<"secure", "login">>, <<"example">>}
TopLabels == {<<"com">>, <<"tk">>}

GenHostnames ==
  { h \in UNION {[1..n -> HostLabels \cup TopLabels] : n \in 2..MaxLabels} :
      /\ h[Len(h)] \in TopLabels
      /\ \A i \in 1..(Len(h) - 1) : h[i] \in HostLabels }

BodyWords == {"verify", "account", "suspend"}

SignalPages ==
  { Page(h, p, f, t) :
      h \in GenHostnames, p \in {"https:", "http:"}, f \in 0..1,
      t \in SUBSET BodyWords }

CheckboxKinds ==
  {[id |-> "remember", label |-> "remember"], [id |-> "terms", label |-> "none"]}
LinkTexts == {"forgot", "register", "help"}

SignalForms ==
  { Form(<<Email("x"), Password("x")>>, n, cbs, links) :
      n \in 0..2,
      cbs \in UNION {[1..k -> CheckboxKinds] : k \in 0..MaxItems},
      links \in UNION {[1..k -> LinkTexts] : k \in 0..MaxItems} }

SignalInit ==
  /\ page \in SignalPages
  /\ listeners = <<"arrow">>
  /\ timers = 0
  /\ events = <<>>
  /\ analyses = <<>>
  /\ overlays = <<>>
  /\ log = <<>>
  /\ submits = <<>>
  /\ calc = NoCalc
  /\ background = NoSettings

CallAnalyzeDomain ==
  /\ calc = NoCalc
  /\ calc' = [op |-> "analyzeDomain", result |-> analyzeDomain(page)]
  /\ UNCHANGED <<page, listeners, timers, events, analyses, overlays, log, submits,
                 background>>

CallAnalyzeCertificate ==
  /\ calc = NoCalc
  /\ calc' = [op |-> "analyzeCertificate", result |-> analyzeCertificate(page)]
  /\ UNCHANGED <<page, listeners, timers, events, analyses, overlays, log, submits,
                 background>>

CallCheckPasswordBreach(resp) ==
  /\ calc = NoCalc
  /\ calc' = [op |-> "checkPasswordBreach", resp |-> resp,
              result |-> checkPasswordBreach(resp).value]
  /\ UNCHANGED <<page, listeners, timers, events, analyses, overlays, log, submits,
                 background>>

CallAnalyzeFormCharacteristics(form) ==
  /\ calc = NoCalc
  /\ calc' = [op |-> "analyzeFormCharacteristics", form |-> form,
              result |-> analyzeFormCharacteristics(form, page).value]
  /\ UNCHANGED <<page, listeners, timers, events, analyses, overlays, log, submits,
                 background>>

CallAnalyzeVisualSimilarity ==
  /\ calc = NoCalc
  /\ calc' = [op |-> "analyzeVisualSimilarity", result |-> analyzeVisualSimilarity(page)]
  /\ UNCHANGED <<page, listeners, timers, events, analyses, overlays, log, submits,
                 background>>

CallCheckDomainReputation ==
  /\ calc = NoCalc
  /\ calc' = [op |-> "checkDomainReputation", result |-> checkDomainReputation]
  /\ UNCHANGED <<page, listeners, timers, events, analyses, overlays, log, submits,
                 background>>

SignalNext ==
  \/ CallAnalyzeDomain
  \/ CallAnalyzeCertificate
  \/ \E resp \in Responses : CallCheckPasswordBreach(resp)
  \/ \E form \in SignalForms : CallAnalyzeFormCharacteristics(form)
  \/ CallAnalyzeVisualSimilarity
  \/ CallCheckDomainReputation

SignalSpec == SignalInit /\ [][SignalNext]_vars

\* ------------------------------------------- the aggregator in Number arithmetic
\* A Number (IEEE 754 double) of magnitude below 512 is kept as a sign and a
\* magnitude counted in units of 2^-57, the magnitude as three limbs of 22
\* bits, least significant first. Every product and sum below is exact on
\* that grid before it is rounded to 53 significant bits, to nearest, ties to
\* even.
LimbBase == 2^22

\* n units of 2^44, n < 2^22
Limbs(l0, l1, l2) == <<l0, l1, l2>>

ZeroMag == Limbs(0, 0, 0)

\* the integer n, |n| < 512
FromInt(n) ==
  [neg |-> n < 0, mag |-> Limbs(0, 0, (IF n < 0 THEN -n ELSE n) * 2^13)]

\* variant whose breach weight is 0
weightNumbers_NoBreach ==
  [domain |-> Limbs(1677720, 2516582, 2457),
   certificate |-> Limbs(838860, 3355443, 1228),
   breachCheck |-> Limbs(0, 0, 0),
   formCharacteristics |-> Limbs(838860, 3355443, 1228),
   visualSimilarity |-> Limbs(3355444, 838860, 819),
   domainReputation |-> Limbs(1677722, 2516582, 409)]

\* the literals of the weights object, as the doubles they denote:
\* 0.30 = 0x1.3333333333333p-2, 0.15 = 0x1.3333333333333p-3, 0.25 = 0x1p-2,
\* 0.10 = 0x1.999999999999ap-4, 0.05 = 0x1.999999999999ap-5
weightNumbers ==
  [domain |-> Limbs(1677720, 2516582, 2457),
   certificate |-> Limbs(838860, 3355443, 1228),
   breachCheck |-> Limbs(0, 0, 2048),
   formCharacteristics |-> Limbs(838860, 3355443, 1228),
   visualSimilarity |-> Limbs(3355444, 838860, 819),
   domainReputation |-> Limbs(1677722, 2516582, 409)]

Normalize(p0, p1, p2) ==
  LET c0 == p0 \div LimbBase
      q1 == p1 + c0
      c1 == q1 \div LimbBase
  IN Limbs(p0 % LimbBase, q1 % LimbBase, p2 + c1)

\* magnitude times k, 0 <= k < 256
MulSmall(m, k) == Normalize(m[1] * k, m[2] * k, m[3] * k)

AddMag(a, b) == Normalize(a[1] + b[1], a[2] + b[2], a[3] + b[3])

LessMag(a, b) ==
  \/ a[3] < b[3]
  \/ a[3] = b[3] /\ a[2] < b[2]
  \/ a[3] = b[3] /\ a[2] = b[2] /\ a[1] < b[1]

\* a - b for a >= b
SubMag(a, b) ==
  LET d0 == a[1] - b[1]
      b0 == IF d0 < 0 THEN 1 ELSE 0
      d1 == a[2] - b[2] - b0
      b1 == IF d1 < 0 THEN 1 ELSE 0
  IN Limbs(d0 + b0 * LimbBase, d1 + b1 * LimbBase, a[3] - b[3] - b1)

BitLength(x) == CHOOSE k \in 0..31 : x < 2^k /\ (k = 0 \/ x >= 2^(k - 1))

MagBits(m) ==
  IF m[3] > 0 THEN 44 + BitLength(m[3])
  ELSE IF m[2] > 0 THEN 22 + BitLength(m[2])
  ELSE BitLength(m[1])

\* variant that truncates instead of rounding to nearest
RoundMag_Truncate(m) ==
  LET bits == MagBits(m)
  IN IF bits <= 53 THEN m
     ELSE Limbs(m[1] - (m[1] % 2^(bits - 53)), m[2], m[3])

\* the nearest magnitude with 53 significant bits, ties to even
RoundMag(m) ==
  LET bits == MagBits(m)
  IN IF bits <= 53 THEN m
     ELSE LET r == bits - 53
              rem == m[1] % 2^r
              odd == (m[1] \div 2^r) % 2 = 1
              half == 2^(r - 1)
              up == rem > half \/ (rem = half /\ odd)
          IN Normalize(m[1] - rem + (IF up THEN 2^r ELSE 0), m[2], m[3])

\* score * weight, for an integer score
Times(score, w) ==
  LET m == RoundMag(MulSmall(w, IF score < 0 THEN -score ELSE score))
  IN [neg |-> score < 0 /\ m # ZeroMag, mag |-> m]

\* a + b
Plus(a, b) ==
  IF a.neg = b.neg
    THEN [neg |-> a.neg, mag |-> RoundMag(AddMag(a.mag, b.mag))]
    ELSE IF a.mag = b.mag
      THEN [neg |-> FALSE, mag |-> ZeroMag]
      ELSE IF LessMag(a.mag, b.mag)
        THEN [neg |-> b.neg, mag |-> RoundMag(SubMag(b.mag, a.mag))]
        ELSE [neg |-> a.neg, mag |-> RoundMag(SubMag(a.mag, b.mag))]

\* a >= b
Geq(a, b) ==
  IF a.neg # b.neg THEN b.neg \/ (a.mag = ZeroMag /\ b.mag = ZeroMag)
  ELSE IF a.neg THEN ~LessMag(b.mag, a.mag)
  ELSE ~LessMag(a.mag, b.mag)

\* a >= n for an integer n
AtLeast(a, n) == Geq(a, FromInt(n))

\* variant whose bands are closed at the top: 70 itself is MEDIUM
getRiskLevelNumber_Exclusive(score) ==
  IF AtLeast(score, 70) /\ score # FromInt(70) THEN "LOW"
  ELSE IF AtLeast(score, 40) /\ score # FromInt(40) THEN "MEDIUM"
  ELSE IF AtLeast(score, 20) /\ score # FromInt(20) THEN "HIGH"
  ELSE "CRITICAL"

\* getRiskLevel on a Number
getRiskLevelNumber(score) ==
  IF AtLeast(score, 70) THEN "LOW"
  ELSE IF AtLeast(score, 40) THEN "MEDIUM"
  ELSE IF AtLeast(score, 20) THEN "HIGH"
  ELSE "CRITICAL"

SignalNames ==
  <<"domain", "certificate", "breachCheck", "formCharacteristics",
    "visualSimilarity", "domainReputation">>

\* the loop of calculateRiskScore over Object.entries(weights), from the
\* k-th entry on
RECURSIVE SumFrom(_, _, _)
SumFrom(k, totalScore, scores) ==
  IF k > Len(SignalNames) THEN totalScore
  ELSE SumFrom(k + 1,
               Plus(totalScore,
                    Times(scores[SignalNames[k]], weightNumbers[SignalNames[k]])),
               scores)

\* calculateRiskScore on the scores of the six results, in Number arithmetic
calculateRiskScoreNumber(scores) ==
  LET totalScore == SumFrom(1, FromInt(0), scores)
  IN [overall |-> totalScore, level |-> getRiskLevelNumber(totalScore)]

\* the sum of the six weights, added in the order of the object's entries
RECURSIVE WeightSumFrom(_, _)
WeightSumFrom(k, total) ==
  IF k > Len(SignalNames) THEN total
  ELSE WeightSumFrom(k + 1,
         Plus(total, [neg |-> FALSE, mag |-> weightNumbers[SignalNames[k]]]))

\* ---- getRiskLevel and calculateRiskScore, one call at a time
\* largest magnitude of a generated score
MaxScore == 120

\* the Number q/4
Quarter(q) ==
  [neg |-> q < 0, mag |-> Limbs(0, 0, (IF q < 0 THEN -q ELSE q) * 2^11)]

\* the Numbers next to the integer n > 0 that is no power of two: n minus
\* (d = -1) or plus (d = 1) one unit in the last place
Near(n, d) ==
  LET ulp == Limbs(2^(BitLength(n) + 4), 0, 0)
  IN [neg |-> FALSE,
      mag |-> IF d < 0 THEN SubMag(FromInt(n).mag, ulp)
              ELSE AddMag(FromInt(n).mag, ulp)]

OverallSamples ==
  {Quarter(q) : q \in (-4 * MaxScore)..(4 * MaxScore)}
    \cup {Near(n, d) : n \in {20, 40, 70}, d \in {-1, 1}}

AllEqual(s) == [k \in {SignalNames[i] : i \in DOMAIN SignalNames} |-> s]

\* scores of the six results: all equal, or a mix of scores the signals return
ScoreSamples ==
  {AllEqual(s) : s \in (-MaxScore)..MaxScore}
    \cup [domain : {-50, -10, 10, 50, 90}, certificate : {10, 70},
          breachCheck : {0, 50, 80}, formCharacteristics : {30, 50, 65, 80},
          visualSimilarity : {10, 25, 35, 50}, domainReputation : {50}]

ScoreInit ==
  /\ Init
  /\ page = Page(<<<<"github">>, <<"com">>>>, "https:", 0, {})

CallGetRiskLevel(score) ==
  /\ calc = NoCalc
  /\ calc' = [op |-> "getRiskLevel", score |-> score,
              level |-> getRiskLevelNumber(score)]
  /\ UNCHANGED <<page, listeners, timers, events, analyses, overlays, log, submits,
                 background>>

CallCalculateRiskScore(scores) ==
  /\ calc = NoCalc
  /\ calc' = [op |-> "calculateRiskScore", scores |-> scores,
              riskScore |-> calculateRiskScoreNumber(scores)]
  /\ UNCHANGED <<page, listeners, timers, events, analyses, overlays, log, submits,
                 background>>

\* The machine above aggregates in exact arithmetic, in hundredths. For
\* scores that are multiples of 5, as every score a signal returns is, the
\* level so computed is the level computed in Number arithmetic.
AggregatorsAgree ==
  (calc.op = "calculateRiskScore" /\ \A k \in DOMAIN calc.scores : calc.scores[k] % 5 = 0) =>
    calculateRiskScore([k \in DOMAIN calc.scores |-> [score |-> calc.scores[k]]]).level
      = calc.riskScore.level

ScoreNext ==
  \/ \E score \in OverallSamples : CallGetRiskLevel(score)
  \/ \E scores \in ScoreSamples : CallCalculateRiskScore(scores)
  \/ \E resp \in Responses : CallCheckPasswordBreach(resp)

ScoreSpec == ScoreInit /\ [][ScoreNext]_vars

\* ------------------------------------------------ the settings of the popup
\* saveSettings of the popup: the updateSettings message reaches the service
\* worker, which merges the new settings into its own and stores them
SaveSettings(enableHIBP) ==
  /\ background' = [background EXCEPT !.settings.enableHIBP = enableHIBP]
  /\ UNCHANGED <<page, listeners, timers, events, analyses, overlays, log, submits,
                 calc>>

SettingsNext ==
  \/ \E form \in Forms : Dispatch(form)
  \/ \E a \in 1..MaxAnalyses : Stall(a)
  \/ \E a \in 1..MaxAnalyses : \E resp \in Responses : Settle(a, resp)
  \/ \E o \in 1..MaxAnalyses : \E c \in {"proceed", "cancel"} : Click(o, c)
  \/ TimerFires
  \/ \E enableHIBP \in BOOLEAN : SaveSettings(enableHIBP)

SettingsSpec == Init /\ [][SettingsNext]_vars

\* --------------------------------------------------- the domain signal alone
DomainLabels == HostLabels \cup {<<"securelogin">>, <<"loginpage">>}
DomainTopLabels == TopLabels \cup {<<"xyz">>}

DomainHostnames ==
  { h \in UNION {[1..n -> DomainLabels \cup DomainTopLabels] : n \in 2..MaxLabels} :
      /\ h[Len(h)] \in DomainTopLabels
      /\ \A i \in 1..(Len(h) - 1) : h[i] \in DomainLabels }

DomainInit ==
  /\ page \in {Page(h, p, 0, {}) : h \in DomainHostnames, p \in {"https:", "http:"}}
  /\ listeners = <<"arrow">>
  /\ timers = 0
  /\ events = <<>>
  /\ analyses = <<>>
  /\ overlays = <<>>
  /\ log = <<>>
  /\ submits = <<>>
  /\ calc = NoCalc
  /\ background = NoSettings

DomainNext == CallAnalyzeDomain

DomainSpec == DomainInit /\ [][DomainNext]_vars

\* ------------------------------------------- a page that changes under way
\* a script of the page adds or removes frames, or rewrites the visible text,
\* between two tasks of the content script; the location stays the same
PageChanges(iframes, bodyText) ==
  /\ page' = [page EXCEPT !.iframes = iframes, !.bodyText = bodyText]
  /\ page' # page
  /\ UNCHANGED <<listeners, timers, events, analyses, overlays, log, submits,
                 calc, background>>

LivePageNext ==
  \/ \E form \in Forms : Dispatch(form)
  \/ \E a \in 1..MaxAnalyses : Stall(a)
  \/ \E a \in 1..MaxAnalyses : \E resp \in Responses : Settle(a, resp)
  \/ \E o \in 1..MaxAnalyses : \E c \in {"proceed", "cancel"} : Click(o, c)
  \/ TimerFires
  \/ \E iframes \in 0..1 : \E bodyText \in {{}, {"suspend"}} :
       PageChanges(iframes, bodyText)

LivePageSpec == Init /\ [][LivePageNext]_vars

\* ------------------------------------------------- the background service
\* this.blockedAttempts holds at most this many entries
HistoryCap == 100
\* the periodic cleanup keeps the entries of the last Week days
Week == 7
\* days the clock advances in one behaviour: an entry of the first day can
\* become older than a week
MaxDays == Week + 1
\* steps in which logBlockedAttempt messages are handled, in one behaviour
MaxMessages == 3

\* Array.prototype.slice(0, n)
slice(s, n) == SubSeq(s, 1, IF Len(s) < n THEN Len(s) ELSE n)

NoStatistics ==
  [totalScans |-> 0, blockedAttempts |-> 0, warningsShown |-> 0, allowedLogins |-> 0]

\* chrome.storage.local before the first saveData of the installation
NothingStored == [present |-> FALSE]

\* saveData: chrome.storage.local.set is called with the current fields;
\* the calls take effect in the order they are made
saveData(bg) ==
  [bg EXCEPT !.storage = [present |-> TRUE,
                          blockedAttempts |-> bg.blockedAttempts,
                          statistics |-> bg.statistics]]

\* variant that keeps every entry
logBlockedAttempt_NoCap(bg, data) ==
  saveData([bg EXCEPT !.blockedAttempts = <<data>> \o @,
                      !.statistics.blockedAttempts = @ + 1])

\* logBlockedAttempt(data); the notification it shows is not part of the state
logBlockedAttempt(bg, data) ==
  LET unshifted == <<data>> \o bg.blockedAttempts
      kept == IF Len(unshifted) > HistoryCap
                THEN slice(unshifted, HistoryCap)
                ELSE unshifted
  IN saveData([bg EXCEPT !.blockedAttempts = kept,
                         !.statistics.blockedAttempts = @ + 1])

clearHistory(bg) ==
  saveData([bg EXCEPT !.blockedAttempts = <<>>, !.statistics = NoStatistics])

\* the setInterval callback of setupPeriodicCleanup, run on day bg.now
periodicCleanup(bg) ==
  LET oneWeekAgo == bg.now - Week
      recent(attempt) == attempt.timestamp > oneWeekAgo
  IN saveData([bg EXCEPT !.blockedAttempts = SelectSeq(@, recent)])

\* loadStoredData after its await: result is what storage held when
\* chrome.storage.local.get was called from init()
loadStoredData(bg) ==
  LET result == bg.result
  IN [bg EXCEPT
        !.blockedAttempts = IF result.present THEN result.blockedAttempts ELSE @,
        !.statistics = IF result.present THEN result.statistics ELSE @,
        !.loaded = TRUE]

\* the entry a content script sends with the n-th message, on day now
LogEntry(n, now) == [id |-> n, timestamp |-> now]

\* k logBlockedAttempt messages handled one after the other on the same day
\* (the clock never passes MaxDays; reading it first keeps the evaluation of
\* a long run of messages flat)
RECURSIVE logBlockedAttempts(_, _, _)
logBlockedAttempts(bg, n, k) ==
  IF k = 0 \/ bg.now > MaxDays THEN bg
  ELSE logBlockedAttempts(logBlockedAttempt(bg, LogEntry(n + 1, bg.now)), n + 1, k - 1)

\* the service worker after the constructor and init(): empty history,
\* loadStoredData waiting for storage unless `result` is already applied.
\* now is the day on the worker's clock, handled the number of steps in
\* which messages were handled.
Background(stored, loaded) ==
  [settings |-> [enableHIBP |-> TRUE],
   blockedAttempts |-> <<>>,
   statistics |-> NoStatistics,
   loaded |-> loaded,
   result |-> stored,
   storage |-> stored,
   now |-> 0,
   handled |-> 0]

\* a fresh installation whose loadStoredData has completed
HistoryInit ==
  /\ page = Page(<<<<"github">>, <<"com">>>>, "https:", 0, {})
  /\ listeners = <<"arrow">>
  /\ timers = 0
  /\ events = <<>>
  /\ analyses = <<>>
  /\ overlays = <<>>
  /\ log = <<>>
  /\ submits = <<>>
  /\ calc = NoCalc
  /\ background = Background(NothingStored, TRUE)

\* k messages from content scripts are handled; log keeps every entry ever
\* sent, oldest first, with what has become of it since
LogBlockedAttempt(k) ==
  /\ background.handled < MaxMessages
  /\ background' = [logBlockedAttempts(background, Len(log), k)
                      EXCEPT !.handled = @ + 1]
  /\ log' = log \o [i \in 1..k |->
                      [id |-> Len(log) + i, timestamp |-> background.now,
                       status |-> "logged"]]
  /\ UNCHANGED <<page, listeners, timers, events, analyses, overlays, submits, calc>>

\* the popup's clearHistory message
ClearHistory ==
  /\ background' = clearHistory(background)
  /\ log' = [i \in DOMAIN log |->
               IF log[i].status = "logged"
                 THEN [log[i] EXCEPT !.status = "cleared"]
                 ELSE log[i]]
  /\ UNCHANGED <<page, listeners, timers, events, analyses, overlays, submits, calc>>

\* the hourly timer fires
PeriodicCleanup ==
  /\ background' = periodicCleanup(background)
  /\ log' = [i \in DOMAIN log |->
               IF log[i].status = "logged" /\ background.now - log[i].timestamp >= Week
                 THEN [log[i] EXCEPT !.status = "expired"]
                 ELSE log[i]]
  /\ UNCHANGED <<page, listeners, timers, events, analyses, overlays, submits, calc>>

\* a day passes
DayPasses ==
  /\ background.now < MaxDays
  /\ background' = [background EXCEPT !.now = @ + 1]
  /\ UNCHANGED <<page, listeners, timers, events, analyses, overlays, log, submits,
                 calc>>

HistoryNext ==
  \/ \E k \in {1, HistoryCap - 1} : LogBlockedAttempt(k)
  \/ ClearHistory
  \/ PeriodicCleanup
  \/ DayPasses

HistorySpec == HistoryInit /\ [][HistoryNext]_vars

\* --------------------------------------- the background service starting up
\* what a previous run of the worker left in chrome.storage.local: nothing
\* (first run), a cleared history, or one blocked attempt
StoredData ==
  { NothingStored,
    [present |-> TRUE, blockedAttempts |-> <<>>, statistics |-> NoStatistics],
    [present |-> TRUE, blockedAttempts |-> <<LogEntry(0, 0)>>,
     statistics |-> [NoStatistics EXCEPT !.blockedAttempts = 1]] }

\* init() has registered the message listener and called loadStoredData,
\* which waits for chrome.storage.local.get
LoadInit ==
  /\ page = Page(<<<<"github">>, <<"com">>>>, "https:", 0, {})
  /\ listeners = <<"arrow">>
  /\ timers = 0
  /\ events = <<>>
  /\ analyses = <<>>
  /\ overlays = <<>>
  /\ log = <<>>
  /\ submits = <<>>
  /\ calc = NoCalc
  /\ \E stored \in StoredData : background = Background(stored, FALSE)

\* chrome.storage.local.get settles and loadStoredData resumes
LoadCompletes ==
  /\ ~background.loaded
  /\ background' = loadStoredData(background)
  /\ UNCHANGED <<page, listeners, timers, events, analyses, overlays, log, submits,
                 calc>>

LoadNext ==
  \/ \E k \in {1} : LogBlockedAttempt(k)
  \/ ClearHistory
  \/ PeriodicCleanup
  \/ DayPasses
  \/ LoadCompletes

LoadSpec == LoadInit /\ [][LoadNext]_vars

\* ------------------------------------------------------------ vocabulary
\* A submission is one CredentialSubmission: one invocation of
\* handleFormSubmit that passed recognition, with the RiskAssessment computed
\* for it (an entry of analyses).
Decided == {"blocked", "awaiting", "allowed", "cancelled"}

SubmitCount(a) == Cardinality({i \in DOMAIN submits : submits[i] = a})
LogCount(a) == Cardinality({i \in DOMAIN log : log[i].by = a})
HasOverlay(a, kind) ==
  \E i \in DOMAIN overlays : overlays[i].owner = a /\ overlays[i].kind = kind
AnalysesOf(e) == {a \in DOMAIN analyses : analyses[a].event = e}

C2_MediumAwaitsChoice ==
  \A a \in DOMAIN analyses :
    analyses[a].level = "MEDIUM" =>
      /\ analyses[a].pc \in {"awaiting", "allowed", "cancelled"}
      /\ LogCount(a) = 0
      /\ analyses[a].pc = "awaiting" <=> analyses[a].choice = ""
      /\ analyses[a].pc = "allowed" <=> analyses[a].choice = "proceed"
      /\ analyses[a].pc = "cancelled" <=> analyses[a].choice = "cancel"
      /\ analyses[a].pc = "awaiting" => HasOverlay(a, "choice")
      /\ SubmitCount(a) = IF analyses[a].pc = "allowed" THEN 1 ELSE 0

C2_Witness ==
  \E a, b \in DOMAIN analyses :
    /\ analyses[a].level = "MEDIUM" /\ analyses[a].choice = "proceed"
    /\ analyses[b].level = "MEDIUM" /\ analyses[b].choice = "cancel"

\* ------------------------------------------------------------------ C3
\* C3: a submission assessed LOW is allowed at once: form.submit() has been
\* called for it, no overlay was shown, no choice was asked and no log
\* message was sent.
C3_LowAllowed ==
  \A a \in DOMAIN analyses :
    analyses[a].level = "LOW" =>
      /\ analyses[a].pc = "allowed"
      /\ SubmitCount(a) = 1
      /\ analyses[a].btn = 0 /\ analyses[a].choice = ""
      /\ ~HasOverlay(a, "choice") /\ ~HasOverlay(a, "block")
      /\ LogCount(a) = 0

C3_Witness ==
  \E a \in DOMAIN analyses : analyses[a].level = "LOW" /\ SubmitCount(a) = 1

C5_OneAnalysisPerEvent ==
  \A e \in DOMAIN events :
    events[e].prevented => Cardinality(AnalysesOf(e)) = 1

\* ------------------------------------------------------------------ C6
\* C6 (as claimed): a submit event that arrives while the analysis of an
\* earlier one is pending is ignored or queued: analyses of two different
\* submit events are never in progress together.
InProgress(a) == analyses[a].pc \in {"breach", "stalled", "awaiting"}

C6_NoParallelAnalyses ==
  \A a, b \in DOMAIN analyses :
    analyses[a].event # analyses[b].event => ~(InProgress(a) /\ InProgress(b))

\* ------------------------------------------------------------------ C7
IsPassword(inp) == inp.type = "password"
IsIdentifier(inp) ==
  inp.type \in {"text", "email"} \/ inp.autocomplete \in {"username", "email"}

\* no password input, or no password input with a value, or no identifier
\* input with a value
NotALogin(form) ==
  \/ \A i \in DOMAIN form.inputs : ~IsPassword(form.inputs[i])
  \/ \A i \in DOMAIN form.inputs :
       IsPassword(form.inputs[i]) => form.inputs[i].value = ""
  \/ \A i \in DOMAIN form.inputs :
       IsIdentifier(form.inputs[i]) => form.inputs[i].value = ""

\* C7: a submit event whose form has no password input, an empty password or
\* no identifier input with a value is left alone by every listener: its
\* default action is not prevented, no analysis (signal, assessment) is
\* started for it, and no overlay or log message belongs to it.
C7_NotALoginPassesThrough ==
  \A e \in DOMAIN events :
    NotALogin(events[e].form) =>
      /\ ~events[e].prevented
      /\ AnalysesOf(e) = {}
      /\ \A i \in DOMAIN overlays : analyses[overlays[i].owner].event # e
      /\ \A i \in DOMAIN log : analyses[log[i].by].event # e

C7_Witness ==
  \E e \in DOMAIN events :
    /\ NotALogin(events[e].form)
    /\ \E i \in DOMAIN events[e].form.inputs :
         IsPassword(events[e].form.inputs[i]) /\ events[e].form.inputs[i].value # ""
    /\ Len(listeners) = 2
    /\ ~events[e].prevented

\* ------------------------------------------------------------------ C8
\* C8: a failed breach lookup (network error, exception, non-OK response)
\* never stops the pipeline: no exception leaves checkPasswordBreach, and a
\* submission whose lookup failed and whose analysis went on has a
\* RiskAssessment computed with BreachSignal {score 50, checked false,
\* found false} and a decision. (The one exception that can stop an
\* analysis is analyzeFormCharacteristics', the subject of C10.)
C8_BreachFailureIsNeutral ==
  \A a \in DOMAIN analyses :
    analyses[a].failed =>
      /\ analyses[a].threw # "checkPasswordBreach"
      /\ analyses[a].pc = "aborted" => analyses[a].threw = "analyzeFormCharacteristics"
      /\ analyses[a].pc # "aborted" =>
           /\ analyses[a].breachCheck = [checked |-> FALSE, found |-> FALSE, score |-> 50]
           /\ analyses[a].pc \in Decided
           /\ analyses[a].level \in {"LOW", "MEDIUM", "HIGH", "CRITICAL"}
           /\ analyses[a].level = getRiskLevel(analyses[a].overall)

C8_Witness ==
  \E a \in DOMAIN analyses :
    /\ analyses[a].failed /\ analyses[a].pc \in Decided
    /\ analyses[a].breachCheck.score = 50

\* ------------------------------------------------------------------ C9
\* C9 (as claimed): when the breach service never answers, the lookup is
\* given up after a bounded wait with the failure result, so the submission
\* reaches a decision.
C9_StalledLookupTimesOut ==
  \A a \in 1..MaxAnalyses :
    (a \in DOMAIN analyses /\ analyses[a].pc = "stalled")
      ~> (a \in DOMAIN analyses /\ analyses[a].pc \in Decided
                                /\ analyses[a].breachCheck.score = 50)

\* ------------------------------------------------------------------ C10
\* C10 (as claimed): an exception in a signal computation is absorbed and
\* the pipeline still decides: no recognized submission ends with its
\* default action prevented, no overlay, no log message and no form.submit().
C10_NoSilentlyStuckSubmission ==
  \A a \in DOMAIN analyses :
    ~ /\ analyses[a].threw # ""
      /\ events[analyses[a].event].prevented
      /\ ~HasOverlay(a, "choice") /\ ~HasOverlay(a, "block")
      /\ LogCount(a) = 0
      /\ SubmitCount(a) = 0

\* ----------------------------------------------------------------- C11
\* needle occurs in s as a run of consecutive characters
Occurs(needle, s) ==
  \E i \in 0..(Len(s) - Len(needle)) : SubSeq(s, i + 1, i + Len(needle)) = needle

\* C11: the request of the breach lookup is GET <range url><prefix> with the
\* Add-Padding header and no body: the prefix is the first 5 characters of
\* the digest, the suffix its other 35, prefix and suffix together are the
\* digest, neither the suffix nor the digest occurs in the url, and every
\* credential whose digest has the same prefix produces the same request.
C11_OnlyPrefixLeaves ==
  calc.op \in {"fetch", "breach"} =>
    LET sha1Hash == calc.sha1Hash
        prefix == prefixOf(sha1Hash)
        suffix == suffixOf(sha1Hash)
    IN /\ Len(prefix) = 5 /\ Len(suffix) = 35
       /\ prefix \o suffix = sha1Hash
       /\ calc.request.method = "GET"
       /\ calc.request.url = rangeUrl \o prefix
       /\ calc.request.body = <<>>
       /\ calc.request.headers = {<<"Add-Padding", "true">>}
       /\ ~Occurs(suffix, calc.request.url)
       /\ ~Occurs(sha1Hash, calc.request.url)
       /\ \A hashBuffer \in HashBuffers :
            prefixOf(sha1(hashBuffer)) = prefix =>
              rangeRequest(sha1(hashBuffer)) = calc.request

\* a lookup has been answered for a digest that shares its prefix with
\* another digest
C11_Witness ==
  /\ calc.op = "breach"
  /\ calc.response.kind = "ok"
  /\ \E hashBuffer \in HashBuffers :
       /\ sha1(hashBuffer) # calc.sha1Hash
       /\ prefixOf(sha1(hashBuffer)) = prefixOf(calc.sha1Hash)

\* ----------------------------------------------------------------- C12
\* a well-formed record SUFFIX:COUNT
IsRecord(line) ==
  LET parts == split(line, ":")
  IN /\ Len(parts) = 2
     /\ parts[1] # <<>>
     /\ parts[2] # <<>>
     /\ \A i \in DOMAIN parts[2] : parts[2][i] \in Digits

RecordSuffix(line) == split(line, ":")[1]

\* the record carries suffix, letter case aside
Carries(line, suffix) ==
  IsRecord(line) /\ toUpperCase(RecordSuffix(line)) = toUpperCase(suffix)

\* C12: in an answered lookup, a record that carries the digest's suffix in
\* any letter case gives found=true with score 0, and a body made of records
\* that all carry another suffix gives found=false.
C12_SuffixMatchAnyCase ==
  (calc.op = "breach" /\ calc.response.kind = "ok") =>
    LET hashes == split(calc.response.text, "\n")
        suffix == suffixOf(calc.sha1Hash)
    IN /\ (\E i \in DOMAIN hashes : Carries(hashes[i], suffix)) =>
            (calc.result.found /\ calc.result.score = 0)
       /\ (\A i \in DOMAIN hashes :
             IsRecord(hashes[i]) /\ ~Carries(hashes[i], suffix)) =>
            ~calc.result.found

\* ----------------------------------------------------------------- C13
\* C13: in an answered lookup, an empty body gives found=false, checked=true
\* and score 80, and found=true is given only when a well-formed record of
\* the body carries the digest's suffix.
C13_EmptyAndMalformedTolerated ==
  (calc.op = "breach" /\ calc.response.kind = "ok") =>
    LET hashes == split(calc.response.text, "\n")
        suffix == suffixOf(calc.sha1Hash)
    IN /\ calc.response.text = <<>> =>
            calc.result = [checked |-> TRUE, found |-> FALSE, score |-> 80]
       /\ calc.result.found =>
            \E i \in DOMAIN hashes : Carries(hashes[i], suffix)

\* ----------------------------------------------------------------- C14
SignalOps ==
  {"analyzeDomain", "analyzeCertificate", "checkPasswordBreach",
   "analyzeFormCharacteristics", "analyzeVisualSimilarity", "checkDomainReputation"}

\* the hostname is an entry of the allowlist or a subdomain of one
OnAllowlist(hostname) ==
  \E i \in DOMAIN trustedDomains :
    \/ hostname = trustedDomains[i]
    \/ /\ Len(hostname) > Len(trustedDomains[i])
       /\ \A j \in DOMAIN trustedDomains[i] :
            hostname[Len(hostname) - Len(trustedDomains[i]) + j] = trustedDomains[i][j]

\* C14: for a hostname on the allowlist the domain signal returns score 90,
\* trusted, with no deduction applied, whatever the scheme and the labels.
C14_TrustedShortCircuit ==
  (calc.op = "analyzeDomain" /\ OnAllowlist(page.hostname)) =>
    /\ calc.result.score = 90
    /\ calc.result.isTrusted
    /\ calc.result.suspiciousPatterns = 0

\* ----------------------------------------------------------------- C15
Levels == {"LOW", "MEDIUM", "HIGH", "CRITICAL"}

Severity(level) ==
  CASE level = "LOW" -> 0 [] level = "MEDIUM" -> 1
    [] level = "HIGH" -> 2 [] level = "CRITICAL" -> 3

\* C15: every overall score gets one level: LOW from 70 up, MEDIUM from 40
\* up to but not 70, HIGH from 20 up to but not 40, CRITICAL below 20,
\* negative scores included; a higher score never gets a more severe level.
C15_LevelsPartitionScores ==
  calc.op = "getRiskLevel" =>
    LET x == calc.score
    IN /\ calc.level \in Levels
       /\ (calc.level = "LOW") <=> AtLeast(x, 70)
       /\ (calc.level = "MEDIUM") <=> (AtLeast(x, 40) /\ ~AtLeast(x, 70))
       /\ (calc.level = "HIGH") <=> (AtLeast(x, 20) /\ ~AtLeast(x, 40))
       /\ (calc.level = "CRITICAL") <=> ~AtLeast(x, 20)
       /\ (x.neg /\ x.mag # ZeroMag) => calc.level = "CRITICAL"
       /\ \A y \in OverallSamples :
            Geq(y, x) => Severity(getRiskLevelNumber(y)) <= Severity(calc.level)

\* the level of the score 70 itself has been computed
C15_Witness ==
  /\ calc.op = "getRiskLevel"
  /\ calc.score = FromInt(70)
  /\ calc.level = "LOW"

\* ----------------------------------------------------------------- C16
IsAllEqual(scores, s) == \A k \in DOMAIN scores : scores[k] = s

C17_BreachLowersOverall ==
  /\ (calc.op = "checkPasswordBreach" /\ calc.result.found) =>
       calc.result.score = 0
  /\ (calc.op = "calculateRiskScore" /\ calc.scores.breachCheck = 0) =>
       LET clean == calculateRiskScoreNumber([calc.scores EXCEPT !.breachCheck = 80])
       IN /\ ~Geq(calc.riskScore.overall, clean.overall)
          /\ Severity(calc.riskScore.level) >= Severity(clean.level)

\* scores with breach score 0 have been aggregated, at a level more severe
\* than the level of the same scores with a clean password
C17_Witness ==
  /\ calc.op = "calculateRiskScore"
  /\ calc.scores.breachCheck = 0
  /\ Severity(calc.riskScore.level) >
       Severity(calculateRiskScoreNumber([calc.scores EXCEPT !.breachCheck = 80]).level)

\* ----------------------------------------------------------------- C18
\* C18: the score of every result a signal returns is between 0 and 100.
C18_SignalScoresInRange ==
  calc.op \in SignalOps =>
    (calc.result.score >= 0 /\ calc.result.score <= 100)

\* ----------------------------------------------------------------- C19
\* C19: while the stored settings have the breach check disabled, a
\* recognized submission starts no breach lookup, and an assessment is
\* computed without a breach result.
C19_DisabledBreachCheckSkipped ==
  [][~background.settings.enableHIBP =>
       /\ \A a \in DOMAIN analyses' \ DOMAIN analyses : analyses'[a].pc # "breach"
       /\ \A a \in DOMAIN analyses :
            (analyses[a].level = "" /\ analyses'[a].level # "") =>
              analyses'[a].breachCheck = NoBreachResult]_vars

\* ----------------------------------------------------------------- C20
\* Scenario A: http://accounts-secure-login.tk/ with urgency text on the page
ScenarioAPage ==
  /\ page.hostname = <<<<"accounts", "secure", "login">>, <<"tk">>>>
  /\ page.protocol # "https:"
  /\ page.bodyText \cap {"suspend", "locked"} # {}

\* a form with its two fields only: no label, checkbox or link
BareForm(form) ==
  form.labels = 0 /\ form.checkboxes = <<>> /\ form.links = <<>>

\* C20: in Scenario A, a submission of a form without labels or links whose
\* password the breach service reports as found is assessed CRITICAL and
\* blocked: the blocking overlay is shown, one log entry is sent and the
\* form is never submitted.
C20_ScenarioABlocked ==
  ScenarioAPage =>
    \A a \in DOMAIN analyses :
      (BareForm(events[analyses[a].event].form) /\ analyses[a].breachCheck.found) =>
        /\ analyses[a].level = "CRITICAL"
        /\ analyses[a].pc = "blocked"
        /\ LogCount(a) = 1
        /\ SubmitCount(a) = 0

\* a Scenario A submission has been blocked and logged
C20_Witness ==
  /\ ScenarioAPage
  /\ \E a \in DOMAIN analyses :
       /\ BareForm(events[analyses[a].event].form)
       /\ analyses[a].breachCheck.found
       /\ analyses[a].pc = "blocked"
       /\ \E i \in DOMAIN log : log[i].by = a /\ log[i].riskLevel = "CRITICAL"

\* ----------------------------------------------------------------- C21
\* Scenario C: https://my-bank-secure.com/
ScenarioCPage ==
  /\ page.hostname = <<<<"my", "bank", "secure">>, <<"com">>>>
  /\ page.protocol = "https:"

\* C21: in Scenario C, a submission of a form without labels or links whose
\* breach lookup fails gets the breach signal {checked: false, found: false,
\* score: 50} and the level MEDIUM, and waits behind the choice overlay with
\* nothing submitted or logged; once the user has clicked cancel it is
\* cancelled: form.submit() is not called for it and no log entry is sent.
C21_ScenarioCCancelled ==
  ScenarioCPage =>
    \A a \in DOMAIN analyses :
      (/\ BareForm(events[analyses[a].event].form)
       /\ analyses[a].failed
       /\ analyses[a].pc \notin {"breach", "stalled"}) =>
        /\ analyses[a].breachCheck = [checked |-> FALSE, found |-> FALSE, score |-> 50]
        /\ analyses[a].level = "MEDIUM"
        /\ analyses[a].pc \in {"awaiting", "allowed", "cancelled"}
        /\ analyses[a].pc = "awaiting" => HasOverlay(a, "choice")
        /\ analyses[a].pc = "awaiting" => analyses[a].choice = ""
        /\ analyses[a].choice = "cancel" => analyses[a].pc = "cancelled"
        /\ analyses[a].pc # "allowed" => SubmitCount(a) = 0
        /\ LogCount(a) = 0

\* a Scenario C submission whose lookup failed has been cancelled by the user
C21_Witness ==
  /\ ScenarioCPage
  /\ \E a \in DOMAIN analyses :
       /\ BareForm(events[analyses[a].event].form)
       /\ analyses[a].failed
       /\ analyses[a].level = "MEDIUM"
       /\ analyses[a].choice = "cancel"
       /\ analyses[a].pc = "cancelled"
       /\ SubmitCount(a) = 0

\* ----------------------------------------------------------------- C22
\* the five scores performSecurityAnalysis returns beside the breach score,
\* for a lookup that settles while the page is pg
OtherScores(form, pg) ==
  LET r == performSecurityAnalysis(form, pg, [kind |-> "error", match |-> FALSE]).results
  IN <<r.domain.score, r.certificate.score, r.formCharacteristics.score,
       r.visualSimilarity.score, r.domainReputation.score>>

\* C22: a change of the page while the breach lookup of an analysis is in
\* flight does not change the domain, transport, form, content and
\* reputation scores that analysis will get.
C22_PageChangeKeepsScores ==
  [][\A a \in DOMAIN analyses :
       (analyses[a].pc = "breach" /\ analyses'[a].pc = "breach") =>
         OtherScores(events[analyses[a].event].form, page')
           = OtherScores(events[analyses[a].event].form, page)]_vars

\* ----------------------------------------------------------------- C23
\* the deductions that apply to a page off the allowlist, by finding
Deductions(pg) ==
  {d \in {<<"login", 20>>, <<"secure", 15>>, <<"homograph", 30>>,
          <<"tld", 25>>, <<"scheme", 40>>} :
     \/ d[1] = "login" /\ Includes(pg.hostname, "login")
     \/ d[1] = "secure" /\ Includes(pg.hostname, "secure")
     \/ d[1] = "homograph" /\ containsHomographs(pg.hostname)
     \/ d[1] = "tld" /\ pg.hostname[Len(pg.hostname)] \in suspiciousTLDs
     \/ d[1] = "scheme" /\ pg.protocol # "https:"}

RECURSIVE SumOf(_)
SumOf(D) ==
  IF D = {} THEN 0 ELSE LET d == CHOOSE x \in D : TRUE IN d[2] + SumOf(D \ {d})

B(cond, amount) == IF cond THEN amount ELSE 0

\* C24: the form signal's score is 50, plus 10 for at least two labels, plus
\* 5 when a checkbox labelled remember is present, plus 10 when a forgot or
\* reset link is present, plus 5 when a registration link is present, minus
\* 20 for frames on a page off the allowlist: each taken at most once, so the
\* score is between 30 and 80.
C24_FormAdjustmentsOnce ==
  calc.op = "analyzeFormCharacteristics" =>
    LET form == calc.form
    IN /\ calc.result.score =
            50 + B(form.labels >= 2, 10)
               + B(\E i \in DOMAIN form.checkboxes :
                     form.checkboxes[i].label = "remember", 5)
               + B(\E i \in DOMAIN form.links : matchesForgot(form.links[i]), 10)
               + B(\E i \in DOMAIN form.links : matchesRegister(form.links[i]), 5)
               - B(page.iframes > 0 /\ ~OnAllowlist(page.hostname), 20)
       /\ calc.result.score >= 30
       /\ calc.result.score <= 80

\* ----------------------------------------------------------------- C25
\* C25: a submission waiting behind the choice overlay has not been submitted
\* or logged, and it leaves the wait only in a step that records the user's
\* choice: no timer, settlement or other submit event ends the wait.
C25_WaitsForTheClick ==
  [][\A a \in DOMAIN analyses :
       analyses[a].pc = "awaiting" =>
         /\ analyses[a].choice = ""
         /\ SubmitCount(a) = 0
         /\ LogCount(a) = 0
         /\ \/ /\ analyses'[a] = analyses[a]
               /\ SubmitCount(a)' = 0
               /\ LogCount(a)' = 0
            \/ /\ analyses'[a].choice \in {"proceed", "cancel"}
               /\ analyses'[a].pc \in {"allowed", "cancelled"}
               /\ overlays' # overlays]_vars

\* a submission still waits for its click after another one was allowed and
\* the timer of that one has fired
C25_Witness ==
  \E a, b \in DOMAIN analyses :
    /\ analyses[a].pc = "awaiting"
    /\ analyses[a].choice = ""
    /\ HasOverlay(a, "choice")
    /\ analyses[b].pc = "allowed"
    /\ timers = 0
    /\ Len(listeners) > 1

\* ----------------------------------------------------------------- C26
\* C26: at most one capture-phase submit listener of the monitor is
\* registered on the document, and none while a re-enabling timer of
\* allowFormSubmission is pending.
C26_AtMostOneListener ==
  /\ Len(listeners) <= 1
  /\ timers > 0 => Len(listeners) = 0

\* ----------------------------------------------------------------- C27
Reverse(s) == [i \in 1..Len(s) |-> s[Len(s) - i + 1]]

\* the entries logged and neither cleared nor expired since, newest first
Remaining ==
  LET kept == SelectSeq(log, LAMBDA e : e.status = "logged")
  IN Reverse([i \in DOMAIN kept |-> [id |-> kept[i].id, timestamp |-> kept[i].timestamp]])

\* C27: the history holds at most 100 entries, the most recently logged
\* first, and they are exactly the most recently logged entries that were
\* neither cleared nor expired.
C27_HistoryMostRecentFirst ==
  background.loaded =>
    LET h == background.blockedAttempts
    IN /\ Len(h) <= HistoryCap
       /\ \A i \in 1..(Len(h) - 1) : h[i].id > h[i + 1].id
       /\ h = SubSeq(Remaining, 1, Len(h))
       /\ Len(h) = HistoryCap \/ Len(h) = Len(Remaining)

\* some entries have expired, more than 100 were logged since, and the
\* history is full
C27_Witness ==
  /\ background.loaded
  /\ Len(log) > HistoryCap
  /\ \E i \in DOMAIN log : log[i].status = "expired"
  /\ Len(background.blockedAttempts) = HistoryCap
  /\ Len(Remaining) > HistoryCap

\* ----------------------------------------------------------------- C28
\* C28: the entries the history holds when loadStoredData completes, logged
\* while it was waiting, are still in the history afterwards, and the count
\* of blocked attempts is not lowered.
C28_LoggedBeforeLoadKept ==
  [][(~background.loaded /\ background'.loaded) =>
       /\ \A i \in DOMAIN background.blockedAttempts :
            \E j \in DOMAIN background'.blockedAttempts :
              background'.blockedAttempts[j] = background.blockedAttempts[i]
       /\ background'.statistics.blockedAttempts
            >= background.statistics.blockedAttempts]_vars

====
